---- MODULE Spec2Model ----
(***************************************************************************)
(* MetroWave renderer: the playback queue (QueueManager) and the play      *)
(* request coordination of playSong / playAudioAndUpdateUI, as a state     *)
(* machine.  One action per handler; every await of the source is a point  *)
(* where the handler is suspended and a later action continues it.         *)
(*                                                                         *)
(* A track is identified by its id.  Null stands for JavaScript's          *)
(* null / undefined / '' (all falsy).                                      *)
(***************************************************************************)
EXTENDS Integers, Sequences, FiniteSets, TLC

\* ------------------------------------------------------------------ bounds
MaxToken == 2
MaxQueue == 2
MaxUpNext == 1
QueueLen == 3
QueueSteps == 1
BufferLen == 2
MaxVideoCalls == 2
MaxHistory == 3
MaxLoads == 2

\* ------------------------------------------------------------- value sets
Songs == {1, 2, 3}
Null == 0
NoIndex == -1

\* playedHistory keeps at most this many ids.
HistoryCap == 50

\* What the stream resolver hands back for a track: a URL that differs per
\* track and differs from every id.
UrlOf(id) == 10 + id

\* What an awaited external call can do: yield a URL, yield nothing, reject.
ResolveOutcomes == {"url", "empty", "throw"}
\* What the promise of audioPlayer.play() can do.
StartOutcomes == {"ok", "reject"}

\* The artists field of a track: an array of names, or (as the catalog
\* sometimes sends it) a bare name.
ArtistsList == [isArray |-> TRUE, names |-> <<"a">>]
ArtistsScalar == [isArray |-> FALSE, names |-> <<"a">>]
RawArtists == {ArtistsList, ArtistsScalar}

\* Collections a track can be clicked in (album / playlist views).
Collections == {<<1, 2>>, <<2, 3, 1>>}

RECURSIVE SeqsUpTo(_, _)
SeqsUpTo(S, n) ==
    IF n = 0 THEN {<<>>}
    ELSE LET shorter == SeqsUpTo(S, n - 1)
         IN shorter \cup {Append(q, x) : q \in shorter, x \in S}

VARIABLES
    latestPlayRequestToken, \* renderer.js:52
    isSongLoading,          \* renderer.js:44 (and the loading overlay / buffering class)
    songQueue,              \* QueueManager.songQueue
    currentSongIndex,       \* QueueManager.currentSongIndex
    upNextSongs,            \* QueueManager.upNextSongs (ids)
    upNextArtists,          \* the artists field of each track of upNextSongs
    prefetchedUrl,          \* QueueManager.prefetchedUrl
    prefetchedId,           \* QueueManager.prefetchedId
    playedHistory,          \* QueueManager.playedHistory
    audioSrc,               \* audioPlayer.src
    audioPaused,            \* audioPlayer.paused
    currentTime,            \* audioPlayer.currentTime (0, or some position past 3 s)
    nowPlaying,             \* #current-song-title / #current-song-artist
    errorToasts,            \* error toasts (showNotification(..., 'error')) put up by the handler that just ran
    requests,               \* playAudioAndUpdateUI calls suspended at an await
    prefetching,            \* prefetchNext calls suspended at their await
    fetching,               \* fetchUpNext calls suspended at their await
    burst,                  \* bookkeeping for the claims: the run of play requests in progress
    applied,                \* bookkeeping for the claims: the play most recently applied
    upNextFor,              \* bookkeeping for the claims: the fetch that last wrote upNextSongs
    isVideoLoading,         \* isVideoLoading
    wasAudioPlayingBeforeVideo, \* wasAudioPlayingBeforeVideo
    isClosingVideoPlayer,   \* isClosingVideoPlayer
    videoSrc,               \* localVideoPlayer.src
    videoVisible,           \* videoPlayerContainer.classList.contains('visible')
    videoFetches,           \* playVideo calls suspended at their await
    videoCalls,             \* bookkeeping: the number of getVideoStream calls made
    historyStack,           \* historyStack
    historyIndex,           \* historyIndex
    isNavigatingHistory,    \* isNavigatingHistory
    loadingStates           \* loadState calls suspended at their await

vars == <<latestPlayRequestToken, isSongLoading, songQueue, currentSongIndex,
          upNextSongs, upNextArtists, prefetchedUrl, prefetchedId, playedHistory, audioSrc,
          audioPaused, currentTime, nowPlaying, errorToasts, requests,
          prefetching, fetching, burst, applied, upNextFor,
          isVideoLoading, wasAudioPlayingBeforeVideo, isClosingVideoPlayer,
          videoSrc, videoVisible, videoFetches, videoCalls,
          historyStack, historyIndex, isNavigatingHistory, loadingStates>>

claimVars == <<applied, upNextFor>>
overlayVars == <<isVideoLoading, wasAudioPlayingBeforeVideo, isClosingVideoPlayer,
                 videoSrc, videoVisible, videoFetches, videoCalls>>
viewVars == <<historyStack, historyIndex, isNavigatingHistory, loadingStates>>

queueVars == <<songQueue, currentSongIndex>>
prefetchVars == <<prefetchedUrl, prefetchedId>>
audioVars == <<audioSrc, audioPaused, currentTime>>
asyncVars == <<prefetching, fetching>>

\* ------------------------------------------------------- array helpers
\* A faulty variant of the lookup: the track is never found.
FindIndexNever(q, id) == -1

\* Array.prototype.findIndex(s => s.id === id): first 0-based index, or -1.
FindIndex(q, id) ==
    IF \E i \in 1..Len(q) : q[i] = id
    THEN (CHOOSE i \in 1..Len(q) : q[i] = id /\ \A j \in 1..(i - 1) : q[j] # id) - 1
    ELSE NoIndex

\* A faulty variant of the insertion: the element is pushed at the end.
SpliceInAtEnd(q, start, x) == Append(q, x)

\* q.splice(start, 0, x) for start >= 0: start is clamped to the length.
SpliceIn(q, start, x) ==
    LET at == IF start > Len(q) THEN Len(q) ELSE start
    IN SubSeq(q, 1, at) \o <<x>> \o SubSeq(q, at + 1, Len(q))

\* A faulty variant of the removal: the first element goes, whatever i.
SpliceOutFirst(q, i) == Tail(q)

\* q.splice(i, 1) for 0 <= i < q.length.
SpliceOut(q, i) == SubSeq(q, 1, i) \o SubSeq(q, i + 2, Len(q))

\* array.filter(pred) keeping the order.
RECURSIVE FilterOut(_, _)
FilterOut(q, bad) ==
    IF q = <<>> THEN <<>>
    ELSE IF Head(q) \in bad THEN FilterOut(Tail(q), bad)
    ELSE <<Head(q)>> \o FilterOut(Tail(q), bad)

Ids(q) == {q[i] : i \in 1..Len(q)}

\* getCurrentItem(): songQueue[currentSongIndex] || null
ItemAt(q, i) == IF i >= 0 /\ i < Len(q) THEN q[i + 1] ELSE Null
GetCurrentItem == ItemAt(songQueue, currentSongIndex)

\* Faulty variants of addToHistory: nothing is recorded; the length is not
\* capped.
AddToHistoryNothing(h, id) == h
AddToHistoryNoCap(h, id) == IF id = 0 THEN h ELSE <<id>> \o FilterOut(h, {id})

\* addToHistory(songId)
AddToHistory(h, id) ==
    IF id = Null THEN h
    ELSE LET moved == <<id>> \o FilterOut(h, {id})
         IN IF Len(moved) > HistoryCap THEN SubSeq(moved, 1, Len(moved) - 1) ELSE moved

\* ----------------------------------------------------------------- Init
\* The video overlay as constructed: closed, nothing loading.
OverlayIdle ==
    /\ isVideoLoading = FALSE
    /\ wasAudioPlayingBeforeVideo = FALSE
    /\ isClosingVideoPlayer = FALSE
    /\ videoSrc = Null
    /\ videoVisible = FALSE
    /\ videoFetches = {}
    /\ videoCalls = 0

\* The view history once initialization has pushed the home view.
HomeView == 1

ViewIdle ==
    /\ historyStack = <<HomeView>>
    /\ historyIndex = 0
    /\ isNavigatingHistory = FALSE
    /\ loadingStates = 0

\* No play has been applied yet; nothing has written the buffer.
NoPlay == [tok |-> 0, song |-> Null, next |-> Null]
NoFetch == [tok |-> 0, song |-> Null]

IdleBurst ==
    [clean |-> FALSE, settled |-> FALSE, n |-> 0, base |-> <<Null, Null>>,
     tok |-> 0, song |-> Null, outcome |-> "none"]

Init ==
    /\ latestPlayRequestToken = 0
    /\ isSongLoading = FALSE
    /\ songQueue = <<>>
    /\ currentSongIndex = NoIndex
    /\ upNextSongs = <<>>
    /\ upNextArtists = <<>>
    /\ prefetchedUrl = Null
    /\ prefetchedId = Null
    /\ playedHistory = <<>>
    /\ audioSrc = Null
    /\ audioPaused = TRUE
    /\ currentTime = 0
    /\ nowPlaying = Null
    /\ errorToasts = 0
    /\ requests = {}
    /\ prefetching = {}
    /\ fetching = {}
    /\ burst = IdleBurst
    /\ applied = NoPlay
    /\ upNextFor = NoFetch
    /\ OverlayIdle
    /\ ViewIdle

\* ------------------------------------------------- claim bookkeeping
\* A burst is a run of play requests that starts when none is in flight.  It
\* is clean while every request of it was issued before any of its stream
\* resolutions completed; n counts its requests.  base is the now-playing
\* state (audio source, title) the burst started from; tok, song, outcome
\* describe its last request and what the resolver and the audio element
\* answered to it.  Once a burst is not clean it is no longer tracked.
BurstIssue(t, s) ==
    IF requests = {}
    THEN [clean |-> TRUE, settled |-> FALSE, n |-> 1,
          base |-> <<audioSrc, nowPlaying>>,
          tok |-> t, song |-> s, outcome |-> "pending"]
    ELSE IF burst.clean /\ ~burst.settled
    THEN [burst EXCEPT !.tok = t, !.song = s, !.n = @ + 1]
    ELSE IdleBurst

BurstResolve(r, o) ==
    IF ~burst.clean THEN burst
    ELSE [burst EXCEPT !.settled = TRUE,
                       !.outcome = IF r.token # burst.tok THEN @
                                   ELSE IF o = "url" THEN "started" ELSE "failed"]

BurstStart(r, o) ==
    IF burst.clean /\ r.token = burst.tok /\ o = "ok"
    THEN [burst EXCEPT !.outcome = "played"]
    ELSE burst

\* Faulty variants of the token discipline, used to show that the properties
\* below depend on it: a token that skips a value, a token that is not
\* advanced, a staleness test that never fires, a failure that is never shown.
NextTokenSkip(t) == t + 2
NextTokenSame(t) == t
IsStaleNever(token, latest) == FALSE
ShowsErrorNever(kind) == FALSE

\* ------------------------------------------- playAudioAndUpdateUI
\* const playToken = ++latestPlayRequestToken
NextToken(t) == t + 1

\* The token checks of playAudioAndUpdateUI (at entry, and after the fetch).
IsStale(token, latest) == token # latest

\* The err.message !== "Stale request" test of the catch block: whether the
\* error caught is shown.  An await that rejects never carries that message.
ShowsError(kind) == kind # "stale"

\* The end of the call through catch (kind # "none") and finally: the toast,
\* the loading state.
Finish(r, kind) ==
    /\ errorToasts' = (IF kind # "none" /\ ShowsError(kind) THEN 1 ELSE 0)
    /\ isSongLoading' = FALSE
    /\ requests' = requests \ {r}

\* The call up to its first await: guards, loading state, getAudioStream().
PlayAudioAndUpdateUI(song, token) ==
    IF song = Null \/ IsStale(token, latestPlayRequestToken')
    THEN UNCHANGED <<isSongLoading, requests, burst>>
    ELSE /\ isSongLoading' = TRUE
         /\ requests' = requests \cup {[token |-> token, song |-> song, pc |-> "resolving"]}
         /\ burst' = BurstIssue(token, song)

\* audioPlayer.src = url starts a new load: play() promises still pending
\* from an earlier load are rejected (AbortError).
AbortPending(rs) ==
    {IF x.pc = "starting" THEN [x EXCEPT !.pc = "aborted"] ELSE x : x \in rs}

\* getAudioStream() settles: the call continues after its first await.
Resolve(r, o) ==
    /\ r \in requests
    /\ r.pc = "resolving"
    /\ burst' = BurstResolve(r, o)
    /\ IF o = "throw"
       THEN /\ Finish(r, "rejected")
            /\ UNCHANGED <<prefetchVars, audioVars>>
       ELSE IF IsStale(r.token, latestPlayRequestToken)
       THEN /\ Finish(r, "stale")
            /\ UNCHANGED <<prefetchVars, audioVars>>
       ELSE IF o = "empty"
       THEN /\ Finish(r, "nourl")
            /\ UNCHANGED <<prefetchVars, audioVars>>
       ELSE /\ prefetchedUrl' = Null
            /\ prefetchedId' = Null
            /\ audioSrc' = UrlOf(r.song)
            /\ audioPaused' = FALSE
            /\ currentTime' = 0
            /\ requests' = AbortPending(requests \ {r}) \cup {[r EXCEPT !.pc = "starting"]}
            /\ errorToasts' = 0
            /\ UNCHANGED isSongLoading
    /\ UNCHANGED <<latestPlayRequestToken, queueVars, upNextSongs, upNextArtists, playedHistory,
                   nowPlaying, asyncVars>>
    /\ UNCHANGED <<claimVars, overlayVars, viewVars>>

\* A faulty variant of the lookup: the stored URL, whatever the id.
GetPrefetchedUrlAnyId(songId) == prefetchedUrl

\* getPrefetchedUrl(songId)
GetPrefetchedUrl(songId) == IF prefetchedId = songId THEN prefetchedUrl ELSE Null

\* prefetchNext() up to its await.
PrefetchNext(tok) ==
    /\ prefetchedUrl' = Null
    /\ prefetchedId' = Null
    /\ IF currentSongIndex + 1 < Len(songQueue)
       THEN prefetching' = prefetching \cup
                {[tok |-> tok, song |-> songQueue[currentSongIndex + 2]]}
       ELSE UNCHANGED prefetching

\* fetchUpNext() up to its await.
FetchUpNext(tok) ==
    IF GetCurrentItem = Null
    THEN upNextSongs' = <<>> /\ upNextArtists' = <<>> /\ UNCHANGED fetching
    ELSE /\ fetching' = fetching \cup {[tok |-> tok, song |-> GetCurrentItem]}
         /\ UNCHANGED <<upNextSongs, upNextArtists>>

\* The promise of audioPlayer.play() settles: the rest of the try block.
AudioStart(r, o) ==
    /\ r \in requests
    /\ r.pc \in {"starting", "aborted"}
    /\ o = "ok" => r.pc = "starting"
    /\ burst' = BurstStart(r, o)
    /\ IF o = "ok"
       THEN /\ nowPlaying' = r.song
            /\ playedHistory' = AddToHistory(playedHistory, r.song)
            /\ PrefetchNext(r.token)
            /\ FetchUpNext(r.token)
            /\ Finish(r, "none")
       ELSE /\ Finish(r, "rejected")
            /\ UNCHANGED <<nowPlaying, playedHistory, prefetchVars, upNextSongs, upNextArtists, asyncVars>>
    /\ UNCHANGED <<latestPlayRequestToken, queueVars, audioVars>>
    /\ IF o = "ok"
       THEN /\ applied' = [tok |-> r.token, song |-> r.song,
                           next |-> ItemAt(songQueue, currentSongIndex + 1)]
            /\ upNextFor' = IF GetCurrentItem = Null THEN NoFetch ELSE upNextFor
       ELSE UNCHANGED claimVars
    /\ UNCHANGED <<overlayVars, viewVars>>

\* The await of prefetchNext settles.
PrefetchDone(p, o) ==
    /\ errorToasts' = 0
    /\ p \in prefetching
    /\ prefetching' = prefetching \ {p}
    /\ IF o = "throw"
       THEN prefetchedUrl' = Null /\ prefetchedId' = Null
       ELSE /\ prefetchedUrl' = (IF o = "url" THEN UrlOf(p.song) ELSE Null)
            /\ prefetchedId' = p.song
    /\ UNCHANGED <<latestPlayRequestToken, isSongLoading, queueVars, upNextSongs, upNextArtists,
                   playedHistory, audioVars, nowPlaying, requests,
                   fetching, burst>>
    /\ UNCHANGED <<claimVars, overlayVars, viewVars>>

\* Faulty variants of fetchUpNext: queued tracks are not excluded; the
\* artists field is passed on as it came.
ExcludedIdsHistoryOnly == Ids(playedHistory)
NormalizeArtistsNot(a) == a

\* fetchUpNext: the ids a candidate must not have: those of the history and
\* of the queue (currentQueueIds), as they are after the await.
ExcludedIds == Ids(playedHistory) \cup Ids(songQueue)

\* Array.isArray(song.artists) ? song.artists : [song.artists]
NormalizeArtists(a) == IF a.isArray THEN a ELSE [isArray |-> TRUE, names |-> a.names]

\* The artists fields of the candidates that .filter keeps, after .map.
RECURSIVE KeptArtists(_, _, _)
KeptArtists(q, artists, bad) ==
    IF q = <<>> THEN <<>>
    ELSE IF Head(q) \in bad THEN KeptArtists(Tail(q), Tail(artists), bad)
    ELSE <<NormalizeArtists(Head(artists))>> \o KeptArtists(Tail(q), Tail(artists), bad)

\* The await of fetchUpNext settles with a list of candidates: their ids
\* upNexts and their artists fields.
FetchUpNextDone(f, upNexts, artists) ==
    /\ errorToasts' = 0
    /\ f \in fetching
    /\ fetching' = fetching \ {f}
    /\ upNextSongs' = FilterOut(upNexts, ExcludedIds)
    /\ upNextArtists' = KeptArtists(upNexts, artists, ExcludedIds)
    /\ UNCHANGED <<latestPlayRequestToken, isSongLoading, queueVars, prefetchVars,
                   playedHistory, audioVars, nowPlaying, requests,
                   prefetching, burst>>
    /\ upNextFor' = f
    /\ UNCHANGED <<applied, overlayVars, viewVars>>

\* A faulty variant of fetchUpNext's catch block: the old buffer is kept.
BufferAfterFailureKept == upNextSongs

\* fetchUpNext's catch block: this.upNextSongs = []
BufferAfterFailure == <<>>

\* The await of fetchUpNext rejects.
FetchUpNextFail(f) ==
    /\ errorToasts' = 0
    /\ f \in fetching
    /\ fetching' = fetching \ {f}
    /\ upNextSongs' = BufferAfterFailure
    /\ upNextArtists' = <<>>
    /\ UNCHANGED <<latestPlayRequestToken, isSongLoading, queueVars, prefetchVars,
                   playedHistory, audioVars, nowPlaying, requests,
                   prefetching, burst>>
    /\ upNextFor' = f
    /\ UNCHANGED <<applied, overlayVars, viewVars>>

\* ------------------------------------------------------ QueueManager
\* No source collection was passed to playSong.
NoCollection == <<Null>>

\* setSongForPlayback(song, sourcePlaylist) on queue q with cursor idx.
SetSongForPlayback(q, idx, song, source) ==
    IF source # NoCollection
    THEN /\ songQueue' = source
         /\ currentSongIndex' = FindIndex(source, song)
    ELSE IF FindIndex(q, song) # NoIndex
    THEN /\ songQueue' = q
         /\ currentSongIndex' = FindIndex(q, song)
    ELSE /\ songQueue' = SpliceIn(q, idx + 1, song)
         /\ currentSongIndex' = idx + 1

\* A faulty variant of the resume test: any track resumes a paused player.
IsResumeInPlaceAnyTrack(q, idx, song) ==
    /\ ItemAt(q, idx) # Null
    /\ audioSrc # Null
    /\ audioPaused

\* The resume test of playSong: there is a current item, the audio element
\* has a source, the requested track is the current item and the player is
\* paused.
IsResumeInPlace(q, idx, song) ==
    /\ ItemAt(q, idx) # Null
    /\ audioSrc # Null
    /\ song = ItemAt(q, idx)
    /\ audioPaused

\* playSong(song, sourcePlaylist) on queue q with cursor idx.
PlaySongOn(q, idx, song, source) ==
    IF IsResumeInPlace(q, idx, song)
    THEN /\ audioPaused' = FALSE
         /\ songQueue' = q
         /\ currentSongIndex' = idx
         /\ UNCHANGED <<latestPlayRequestToken, isSongLoading, requests, burst,
                        audioSrc, currentTime>>
    ELSE /\ latestPlayRequestToken' = NextToken(latestPlayRequestToken)
         /\ SetSongForPlayback(q, idx, song, source)
         /\ PlayAudioAndUpdateUI(ItemAt(songQueue', currentSongIndex'),
                                 latestPlayRequestToken')
         /\ UNCHANGED audioVars

\* A click on a track: in a search / home list (no collection) or inside an
\* album or playlist view (the collection that lists it).
PlaySong(song, source) ==
    /\ errorToasts' = 0
    /\ source # NoCollection => song \in Ids(source)
    /\ PlaySongOn(songQueue, currentSongIndex, song, source)
    /\ UNCHANGED <<upNextSongs, upNextArtists, prefetchVars, playedHistory, nowPlaying, asyncVars>>
    /\ UNCHANGED <<claimVars, overlayVars, viewVars>>

\* A faulty variant of addSongToQueue's test: the first entry is not played.
IsFirstEntryNever(q, idx) == FALSE

\* addSongToQueue: this.currentSongIndex === -1 && this.songQueue.length === 1
IsFirstEntry(q, idx) == idx = NoIndex /\ Len(q) = 1

\* addSongToQueue(song)
AddSongToQueue(song) ==
    /\ errorToasts' = 0
    /\ IF IsFirstEntry(Append(songQueue, song), currentSongIndex)
       THEN PlaySongOn(Append(songQueue, song), currentSongIndex, song, NoCollection)
       ELSE /\ songQueue' = Append(songQueue, song)
            /\ UNCHANGED <<currentSongIndex, latestPlayRequestToken, isSongLoading,
                           requests, burst, audioVars>>
    /\ UNCHANGED <<upNextSongs, upNextArtists, prefetchVars, playedHistory, nowPlaying, asyncVars>>
    /\ UNCHANGED <<claimVars, overlayVars, viewVars>>

\* addSongToPlayNext(song)
AddSongToPlayNext(song) ==
    /\ errorToasts' = 0
    /\ songQueue' = SpliceIn(songQueue, currentSongIndex + 1, song)
    /\ UNCHANGED <<currentSongIndex, latestPlayRequestToken, isSongLoading,
                   upNextSongs, upNextArtists, prefetchVars, playedHistory, audioVars, nowPlaying, requests, asyncVars, burst>>
    /\ UNCHANGED <<claimVars, overlayVars, viewVars>>

\* A faulty variant of the test for a next item: off by one.
HasNextInQueueOffByOne(q, idx) == idx < Len(q)

\* playNextOrUpNext: if (this.currentSongIndex < this.songQueue.length - 1)
HasNextInQueue(q, idx) == idx < Len(q) - 1

\* playNextOrUpNext() on queue q with cursor idx.
PlayNextOrUpNextOn(q, idx) ==
    /\ latestPlayRequestToken' = NextToken(latestPlayRequestToken)
    /\ IF HasNextInQueue(q, idx)
       THEN /\ songQueue' = q
            /\ currentSongIndex' = idx + 1
            /\ PlayAudioAndUpdateUI(ItemAt(q, idx + 1), latestPlayRequestToken')
            /\ UNCHANGED <<upNextSongs, upNextArtists, audioVars>>
       ELSE IF Len(upNextSongs) > 0
       THEN /\ upNextSongs' = Tail(upNextSongs)
            /\ upNextArtists' = Tail(upNextArtists)
            /\ songQueue' = Append(q, Head(upNextSongs))
            /\ currentSongIndex' = idx + 1
            /\ PlayAudioAndUpdateUI(Head(upNextSongs), latestPlayRequestToken')
            /\ UNCHANGED audioVars
       ELSE /\ audioPaused' = TRUE
            /\ songQueue' = q
            /\ currentSongIndex' = idx
            /\ UNCHANGED <<upNextSongs, upNextArtists, audioSrc, currentTime, isSongLoading,
                           requests, burst>>

\* next(), and the audio element's ended event.
PlayNextOrUpNext ==
    /\ errorToasts' = 0
    /\ PlayNextOrUpNextOn(songQueue, currentSongIndex)
    /\ UNCHANGED <<prefetchVars, playedHistory, nowPlaying, asyncVars>>
    /\ UNCHANGED <<claimVars, overlayVars, viewVars>>

\* A faulty variant of previous's position test: the track is never restarted.
PastRestartThresholdNever(t) == FALSE

\* previous: if (audioPlayer.currentTime > 3)
PastRestartThreshold(t) == t > 3

\* previous()
Previous ==
    /\ errorToasts' = 0
    /\ IF Len(songQueue) = 0
       THEN UNCHANGED <<queueVars, latestPlayRequestToken, isSongLoading, requests,
                        burst, audioVars>>
       ELSE IF PastRestartThreshold(currentTime)
       THEN /\ currentTime' = 0
            /\ UNCHANGED <<queueVars, latestPlayRequestToken, isSongLoading,
                           requests, burst, audioSrc, audioPaused>>
       ELSE IF currentSongIndex > 0
       THEN /\ currentSongIndex' = currentSongIndex - 1
            /\ latestPlayRequestToken' = NextToken(latestPlayRequestToken)
            /\ PlayAudioAndUpdateUI(ItemAt(songQueue, currentSongIndex - 1),
                                    latestPlayRequestToken')
            /\ UNCHANGED <<songQueue, audioVars>>
       ELSE UNCHANGED <<queueVars, latestPlayRequestToken, isSongLoading, requests,
                        burst, audioVars>>
    /\ UNCHANGED <<upNextSongs, upNextArtists, prefetchVars, playedHistory, nowPlaying, asyncVars>>
    /\ UNCHANGED <<claimVars, overlayVars, viewVars>>

\* Faulty variants of removeItem's cursor arithmetic: the cursor is never
\* adjusted, is always decremented, or is not stepped back before advancing.
CursorAfterRemovalKeep(index, idx) == idx
CursorAfterRemovalAlways(index, idx) == idx - 1
CursorBeforeAdvanceKeep(idx) == idx

\* removeItem(index), an item other than the current one: else if (index < this.currentSongIndex)
CursorAfterRemoval(index, idx) == IF index < idx THEN idx - 1 ELSE idx

\* removeItem(index), the current item: this.currentSongIndex-- before
\* playNextOrUpNext()
CursorBeforeAdvance(idx) == idx - 1

\* removeItem(index)
RemoveItem(index) ==
    /\ errorToasts' = 0
    /\ IF index < 0 \/ index >= Len(songQueue)
       THEN UNCHANGED <<queueVars, latestPlayRequestToken, isSongLoading, requests,
                        burst, audioVars, upNextSongs, upNextArtists>>
       ELSE IF index = currentSongIndex
       THEN PlayNextOrUpNextOn(SpliceOut(songQueue, index),
                               CursorBeforeAdvance(currentSongIndex))
       ELSE /\ songQueue' = SpliceOut(songQueue, index)
            /\ currentSongIndex' = CursorAfterRemoval(index, currentSongIndex)
            /\ UNCHANGED <<latestPlayRequestToken, isSongLoading, requests, burst,
                           audioVars, upNextSongs, upNextArtists>>
    /\ UNCHANGED <<prefetchVars, playedHistory, nowPlaying, asyncVars>>
    /\ UNCHANGED <<claimVars, overlayVars, viewVars>>

\* A faulty variant of reorderItem: the cursor is not looked up again.
CursorAfterReorderKeep(moved, currentSongId, idx) == idx

\* reorderItem: if (currentSongId) this.currentSongIndex = findIndex(...)
CursorAfterReorder(moved, currentSongId, idx) ==
    IF currentSongId # Null THEN FindIndex(moved, currentSongId) ELSE idx

\* reorderItem(oldIndex, newIndex), from the drag-and-drop of a queue row.
ReorderItem(oldIndex, newIndex) ==
    /\ errorToasts' = 0
    /\ oldIndex \in 0..(Len(songQueue) - 1)
    /\ newIndex \in 0..(Len(songQueue) - 1)
    /\ IF oldIndex = newIndex
       THEN UNCHANGED queueVars
       ELSE LET currentSongId == GetCurrentItem
                moved == SpliceIn(SpliceOut(songQueue, oldIndex), newIndex,
                                  songQueue[oldIndex + 1])
            IN /\ songQueue' = moved
               /\ currentSongIndex' = CursorAfterReorder(moved, currentSongId,
                                                         currentSongIndex)
    /\ UNCHANGED <<latestPlayRequestToken, isSongLoading, upNextSongs, upNextArtists, prefetchVars,
                   playedHistory, audioVars, nowPlaying, requests,
                   asyncVars, burst>>
    /\ UNCHANGED <<claimVars, overlayVars, viewVars>>

\* The click listener renderQueue puts on queue row index.
QueueItemClick(index) ==
    /\ errorToasts' = 0
    /\ index \in 0..(Len(songQueue) - 1)
    /\ latestPlayRequestToken' = NextToken(latestPlayRequestToken)
    /\ currentSongIndex' = index
    /\ PlayAudioAndUpdateUI(ItemAt(songQueue, index), latestPlayRequestToken')
    /\ UNCHANGED <<songQueue, upNextSongs, upNextArtists, prefetchVars, playedHistory, audioVars,
                   nowPlaying, asyncVars>>
    /\ UNCHANGED <<claimVars, overlayVars, viewVars>>

\* playFromUpNext(index)
PlayFromUpNext(index) ==
    /\ errorToasts' = 0
    /\ IF ItemAt(upNextSongs, index) # Null
       THEN /\ songQueue' = Append(songQueue, ItemAt(upNextSongs, index))
            /\ upNextSongs' = SpliceOut(upNextSongs, index)
            /\ upNextArtists' = SpliceOut(upNextArtists, index)
            /\ currentSongIndex' = Len(songQueue')  - 1
            /\ latestPlayRequestToken' = NextToken(latestPlayRequestToken)
            /\ PlayAudioAndUpdateUI(ItemAt(upNextSongs, index), latestPlayRequestToken')
       ELSE UNCHANGED <<queueVars, upNextSongs, upNextArtists, latestPlayRequestToken,
                        isSongLoading, requests, burst>>
    /\ UNCHANGED <<prefetchVars, playedHistory, audioVars, nowPlaying,
                   asyncVars>>
    /\ UNCHANGED <<claimVars, overlayVars, viewVars>>

\* togglePlayPause()
TogglePlayPause ==
    /\ errorToasts' = 0
    /\ ~videoVisible
    /\ audioSrc # Null
    /\ audioPaused' = ~audioPaused
    /\ UNCHANGED <<latestPlayRequestToken, isSongLoading, queueVars, upNextSongs, upNextArtists,
                   prefetchVars, playedHistory, audioSrc, currentTime, nowPlaying, requests, asyncVars, burst>>
    /\ UNCHANGED <<claimVars, overlayVars, viewVars>>

\* Playback runs on: the position passes 3 seconds.
LaterPosition == 5

Tick ==
    /\ errorToasts' = 0
    /\ audioSrc # Null
    /\ ~audioPaused
    /\ currentTime = 0
    /\ currentTime' = LaterPosition
    /\ UNCHANGED <<latestPlayRequestToken, isSongLoading, queueVars, upNextSongs, upNextArtists,
                   prefetchVars, playedHistory, audioSrc, audioPaused, nowPlaying, requests, asyncVars, burst>>
    /\ UNCHANGED <<claimVars, overlayVars, viewVars>>

\* ----------------------------------------------------------- the system
\* The model stops issuing tokens at maxTok and growing the queue at maxLen.
Within(maxTok, maxLen) ==
    /\ latestPlayRequestToken' <= maxTok
    /\ Len(songQueue') <= maxLen

\* What the user (and the ended event) can do with tracks S and collections C.
UserStep(S, C, maxTok, maxLen) ==
    \/ \E s \in S, c \in C \cup {NoCollection} :
           PlaySong(s, c) /\ Within(maxTok, maxLen)
    \/ \E s \in S : AddSongToQueue(s) /\ Within(maxTok, maxLen)
    \/ \E s \in S : AddSongToPlayNext(s) /\ Within(maxTok, maxLen)
    \/ PlayNextOrUpNext /\ Within(maxTok, maxLen)
    \/ Previous /\ Within(maxTok, maxLen)
    \/ \E i \in -1..Len(songQueue) : RemoveItem(i) /\ Within(maxTok, maxLen)
    \/ \E i, j \in 0..(maxLen - 1) : ReorderItem(i, j)
    \/ \E i \in 0..(maxLen - 1) : QueueItemClick(i) /\ Within(maxTok, maxLen)
    \/ \E i \in 0..MaxUpNext : PlayFromUpNext(i) /\ Within(maxTok, maxLen)
    \/ TogglePlayPause
    \/ Tick

\* What the awaited calls can do, getUpNexts answering with a list of U.
AsyncStep(U) ==
    \/ \E r \in requests, o \in ResolveOutcomes : Resolve(r, o)
    \/ \E r \in requests, o \in StartOutcomes : AudioStart(r, o)
    \/ \E p \in prefetching, o \in ResolveOutcomes : PrefetchDone(p, o)
    \/ \E f \in fetching, u \in U :
           \E a \in [1..Len(u) -> RawArtists] : FetchUpNextDone(f, u, a)
    \/ \E f \in fetching : FetchUpNextFail(f)

\* The whole renderer from its construction, over two tracks.
PlaySongs == {1, 2}
PlayCollections == {<<1, 2>>}

Next ==
    \/ UserStep(PlaySongs, PlayCollections, MaxToken, MaxQueue)
    \/ AsyncStep(SeqsUpTo(PlaySongs, MaxUpNext))

Spec == Init /\ [][Next]_vars

\* The queue operations alone, from every shape of queue, cursor and
\* recommendation buffer.  The states InitQueue adds to the constructed one
\* are those of a session in which track 1 was played (token 1: its stream
\* resolved, playback started, so it is the audio source, the now-playing
\* track and the one id of the history), a second play request (token 2)
\* moved the cursor and failed, the recommendation fetch for track 1 answered
\* while the queue was empty (the history keeps 1 out of the buffer), and the
\* queue was then edited with addSongToPlayNext, reorderItem and removeItem.
\* The awaited calls of the play requests issued here stay pending: their
\* completions write neither songQueue nor currentSongIndex.
PlayedOnce == [token |-> 2, song |-> 1]

\* The states of a played-once session whose recommendation buffer is one of
\* buffers.
PlayedOnceStates(buffers) ==
    /\ latestPlayRequestToken = PlayedOnce.token
    /\ isSongLoading = FALSE
    /\ songQueue \in SeqsUpTo(Songs, QueueLen)
    /\ currentSongIndex \in -1..(Len(songQueue) - 1)
    /\ upNextSongs \in buffers
    /\ upNextArtists = [i \in 1..Len(upNextSongs) |-> ArtistsList]
    /\ prefetchedUrl = Null
    /\ prefetchedId = Null
    /\ playedHistory = <<PlayedOnce.song>>
    /\ audioSrc = UrlOf(PlayedOnce.song)
    /\ audioPaused \in BOOLEAN
    /\ currentTime \in {0, LaterPosition}
    /\ nowPlaying = PlayedOnce.song
    /\ errorToasts = 0
    /\ requests = {}
    /\ prefetching = {}
    /\ fetching = {}
    /\ burst = IdleBurst
    /\ applied = [tok |-> 1, song |-> PlayedOnce.song, next |-> Null]
    /\ upNextFor = [tok |-> 1, song |-> PlayedOnce.song]
    /\ OverlayIdle
    /\ ViewIdle

InitQueue ==
    \/ Init
    \/ PlayedOnceStates(SeqsUpTo(Songs \ {PlayedOnce.song}, MaxUpNext))

NextQueue == UserStep(Songs, Collections, PlayedOnce.token + QueueSteps, QueueLen)

SpecQueue == InitQueue /\ [][NextQueue]_vars

\* The two consumers of the recommendation buffer: playNextOrUpNext (next, or
\* the ended event at the end of each track) and playFromUpNext (a click on
\* a row of the buffer), called repeatedly from every queue and every
\* recommendation buffer of up to BufferLen tracks, until the buffer is
\* drained.
InitAdvance ==
    \/ Init
    \/ PlayedOnceStates(SeqsUpTo(Songs \ {PlayedOnce.song}, BufferLen))

NextAdvance ==
    \/ PlayNextOrUpNext /\ Within(PlayedOnce.token + BufferLen, QueueLen)
    \/ \E i \in -1..BufferLen :
           PlayFromUpNext(i) /\ Within(PlayedOnce.token + BufferLen, QueueLen)

SpecAdvance == InitAdvance /\ [][NextAdvance]_vars

\* setSongForPlayback called on its own, with every track and every source
\* (none, or a collection that may or may not list the track), from every
\* queue of InitQueue.
SetSongForPlaybackCall(song, source) ==
    /\ errorToasts' = 0
    /\ SetSongForPlayback(songQueue, currentSongIndex, song, source)
    /\ Len(songQueue') <= QueueLen
    /\ UNCHANGED <<latestPlayRequestToken, isSongLoading, upNextSongs, upNextArtists, prefetchVars,
                   playedHistory, audioVars, nowPlaying, requests, asyncVars, burst>>
    /\ UNCHANGED <<claimVars, overlayVars, viewVars>>

NextSetSong ==
    \E s \in Songs, c \in Collections \cup {NoCollection} : SetSongForPlaybackCall(s, c)

SpecSetSong == InitQueue /\ [][NextSetSong]_vars

\* addToHistory called on its own.  The history starts as the one left by
\* playing tracks 1..k in that order, for every k up to the cap, and is then
\* given ids that are in it (most recent, middle, oldest), ids that are not,
\* and a missing id.
RunHistory(k) == [i \in 1..k |-> k + 1 - i]

ProbeIds == {Null, 1, HistoryCap \div 2, HistoryCap, HistoryCap + 1, HistoryCap + 2}

InitHistory ==
    /\ \E k \in 0..HistoryCap : playedHistory = RunHistory(k)
    /\ latestPlayRequestToken = 0
    /\ isSongLoading = FALSE
    /\ songQueue = <<>>
    /\ currentSongIndex = NoIndex
    /\ upNextSongs = <<>>
    /\ upNextArtists = <<>>
    /\ prefetchedUrl = Null
    /\ prefetchedId = Null
    /\ audioSrc = Null
    /\ audioPaused = TRUE
    /\ currentTime = 0
    /\ nowPlaying = Null
    /\ errorToasts = 0
    /\ requests = {}
    /\ prefetching = {}
    /\ fetching = {}
    /\ burst = IdleBurst
    /\ applied = NoPlay
    /\ upNextFor = NoFetch
    /\ OverlayIdle
    /\ ViewIdle

AddToHistoryCall(id) ==
    /\ playedHistory' = AddToHistory(playedHistory, id)
    /\ UNCHANGED <<latestPlayRequestToken, isSongLoading, songQueue, currentSongIndex,
                   upNextSongs, upNextArtists, prefetchedUrl, prefetchedId, audioSrc, audioPaused,
                   currentTime, nowPlaying, errorToasts, requests, prefetching,
                   fetching, burst>>
    /\ UNCHANGED <<claimVars, overlayVars, viewVars>>

NextHistory == \E id \in ProbeIds : AddToHistoryCall(id)

SpecHistory == InitHistory /\ [][NextHistory]_vars

\* ------------------------------------------------- the video overlay
VideoUrlOf(id) == 20 + id

\* getVideoStream answers with a URL, with null (yt-dlp failed or was
\* killed), or the invoke rejects.
VideoOutcomes == {"url", "none", "error"}

\* hideVideoPlayer(), as a handler of its own or called by another one.
HideVideoPlayerBody ==
    /\ isClosingVideoPlayer' = TRUE
    /\ isVideoLoading' = FALSE
    /\ videoSrc' = Null
    /\ videoVisible' = FALSE
    /\ audioPaused' = IF wasAudioPlayingBeforeVideo THEN FALSE ELSE audioPaused
    /\ wasAudioPlayingBeforeVideo' = FALSE

\* The click on #video-btn: playVideo(getCurrentItem()), up to its await.
PlayVideo ==
    /\ IF GetCurrentItem = Null
       THEN /\ errorToasts' = 1
            /\ UNCHANGED <<overlayVars, audioPaused>>
       ELSE IF isVideoLoading
       THEN /\ errorToasts' = 0
            /\ UNCHANGED <<overlayVars, audioPaused>>
       ELSE /\ errorToasts' = 0
            /\ isVideoLoading' = TRUE
            /\ wasAudioPlayingBeforeVideo' = ~audioPaused
            /\ audioPaused' = TRUE
            /\ videoCalls' = videoCalls + 1
            /\ videoFetches' = videoFetches \cup
                   {[call |-> videoCalls', video |-> GetCurrentItem, closed |-> FALSE]}
            /\ UNCHANGED <<isClosingVideoPlayer, videoSrc, videoVisible>>
    /\ UNCHANGED <<latestPlayRequestToken, isSongLoading, queueVars, upNextSongs,
                   upNextArtists, prefetchVars, playedHistory, audioSrc, currentTime,
                   nowPlaying, requests, asyncVars, burst, viewVars, claimVars>>

\* The click on the close button of the overlay: hideVideoPlayer().  The
\* calls in flight are marked as closed by the user.
HideVideoPlayer ==
    /\ errorToasts' = 0
    /\ HideVideoPlayerBody
    /\ videoFetches' = {[f EXCEPT !.closed = TRUE] : f \in videoFetches}
    /\ UNCHANGED <<latestPlayRequestToken, isSongLoading, queueVars, upNextSongs,
                   upNextArtists, prefetchVars, playedHistory, audioSrc, currentTime,
                   nowPlaying, requests, asyncVars, burst, videoCalls, viewVars, claimVars>>

\* The test playVideo makes of isVideoLoading after its await.
StillLoading == isVideoLoading

\* playVideo after its await: getVideoStream has answered call f with o.
VideoStreamDone(f, o) ==
    /\ videoFetches' = videoFetches \ {f}
    /\ IF o = "url" /\ StillLoading
       THEN /\ errorToasts' = 0
            /\ videoVisible' = TRUE
            /\ videoSrc' = VideoUrlOf(f.video)
            /\ UNCHANGED <<isVideoLoading, wasAudioPlayingBeforeVideo,
                           isClosingVideoPlayer, audioPaused>>
       ELSE IF o = "url"
       THEN /\ errorToasts' = 0
            /\ UNCHANGED <<isVideoLoading, wasAudioPlayingBeforeVideo,
                           isClosingVideoPlayer, videoSrc, videoVisible, audioPaused>>
       ELSE /\ errorToasts' = 1
            /\ HideVideoPlayerBody
    /\ UNCHANGED <<latestPlayRequestToken, isSongLoading, queueVars, upNextSongs,
                   upNextArtists, prefetchVars, playedHistory, audioSrc, currentTime,
                   nowPlaying, requests, asyncVars, burst, videoCalls, viewVars, claimVars>>

\* localVideoPlayer.onloadeddata
VideoLoadedData ==
    /\ videoSrc # Null
    /\ isVideoLoading
    /\ errorToasts' = 0
    /\ isVideoLoading' = FALSE
    /\ UNCHANGED <<latestPlayRequestToken, isSongLoading, queueVars, upNextSongs,
                   upNextArtists, prefetchVars, playedHistory, audioVars,
                   nowPlaying, requests, asyncVars, burst, wasAudioPlayingBeforeVideo,
                   isClosingVideoPlayer, videoSrc, videoVisible, videoFetches,
                   videoCalls, viewVars, claimVars>>

\* localVideoPlayer.onerror: the element reports an error, for a stream that
\* fails or for the empty source hideVideoPlayer gave it.
VideoError ==
    /\ isClosingVideoPlayer \/ videoSrc # Null
    /\ IF isClosingVideoPlayer
       THEN /\ errorToasts' = 0
            /\ isClosingVideoPlayer' = FALSE
            /\ UNCHANGED <<isVideoLoading, wasAudioPlayingBeforeVideo, videoSrc,
                           videoVisible, audioPaused>>
       ELSE /\ errorToasts' = 1
            /\ HideVideoPlayerBody
    /\ UNCHANGED <<latestPlayRequestToken, isSongLoading, queueVars, upNextSongs,
                   upNextArtists, prefetchVars, playedHistory, audioSrc, currentTime,
                   nowPlaying, requests, asyncVars, burst, videoFetches, videoCalls,
                   viewVars, claimVars>>

\* The overlay over a session in which one track was played: the video
\* button, the close button, play/pause, and the completions of
\* getVideoStream and of the video element, with up to MaxVideoCalls calls
\* of getVideoStream.
InitVideo ==
    \/ Init
    \/ PlayedOnceStates({<<>>}) /\ Len(songQueue) <= 1

NextVideo ==
    \/ PlayVideo /\ videoCalls' <= MaxVideoCalls
    \/ HideVideoPlayer
    \/ \E f \in videoFetches, o \in VideoOutcomes : VideoStreamDone(f, o)
    \/ VideoLoadedData
    \/ VideoError
    \/ TogglePlayPause

SpecVideo == InitVideo /\ [][NextVideo]_vars

\* ------------------------------------------------- the view history
\* The states pushed on the history: the home view (its content is awaited),
\* the settings view (rendered without an await) and a search (awaited).
SettingsView == 2
SearchView == 3
Views == {HomeView, SettingsView, SearchView}

\* The views loadView renders without awaiting anything.
SyncViews == {SettingsView}

\* Everything but the view history.
playerVars ==
    <<latestPlayRequestToken, isSongLoading, songQueue, currentSongIndex, upNextSongs,
      upNextArtists, prefetchedUrl, prefetchedId, playedHistory, audioSrc, audioPaused,
      currentTime, nowPlaying, errorToasts, requests, prefetching, fetching, burst,
      claimVars, overlayVars>>

\* historyStack.slice(0, historyIndex + 1) when there are forward entries.
KeptEntries ==
    IF historyIndex < Len(historyStack) - 1
    THEN SubSeq(historyStack, 1, historyIndex + 1)
    ELSE historyStack

\* pushState(state)
PushState(state) ==
    IF isNavigatingHistory
    THEN UNCHANGED <<historyStack, historyIndex>>
    ELSE /\ historyStack' = Append(KeptEntries, state)
         /\ historyIndex' = historyIndex + 1

\* A navigation by the user: loadView, performSearch, loadBrowseView or
\* loadPlaylistView with fromHistory false.  What they await afterwards
\* touches no history variable.
Navigate(state) ==
    /\ PushState(state)
    /\ UNCHANGED <<isNavigatingHistory, loadingStates, playerVars>>

\* loadState(state) up to its await; for a view rendered without an await
\* the finally clause has run before the next event.
LoadState(state) ==
    IF state \in SyncViews
    THEN isNavigatingHistory' = FALSE /\ UNCHANGED loadingStates
    ELSE isNavigatingHistory' = TRUE /\ loadingStates' = loadingStates + 1

\* goBack()
GoBack ==
    /\ IF historyIndex > 0
       THEN /\ historyIndex' = historyIndex - 1
            /\ LoadState(ItemAt(historyStack, historyIndex'))
       ELSE UNCHANGED <<historyIndex, isNavigatingHistory, loadingStates>>
    /\ UNCHANGED <<historyStack, playerVars>>

\* goForward()
GoForward ==
    /\ IF historyIndex < Len(historyStack) - 1
       THEN /\ historyIndex' = historyIndex + 1
            /\ LoadState(ItemAt(historyStack, historyIndex'))
       ELSE UNCHANGED <<historyIndex, isNavigatingHistory, loadingStates>>
    /\ UNCHANGED <<historyStack, playerVars>>

\* loadState after its await (the view loaded or failed): the finally clause.
LoadStateDone ==
    /\ loadingStates > 0
    /\ loadingStates' = loadingStates - 1
    /\ isNavigatingHistory' = FALSE
    /\ UNCHANGED <<historyStack, historyIndex, playerVars>>

\* The view history from initialization: navigations, back, forward and the
\* completions of the awaited loads, with at most MaxHistory entries and
\* MaxLoads loads in flight.
NextView ==
    \/ \E v \in Views : Navigate(v) /\ Len(historyStack') <= MaxHistory
    \/ GoBack /\ loadingStates' <= MaxLoads
    \/ GoForward /\ loadingStates' <= MaxLoads
    \/ LoadStateDone

SpecView == Init /\ [][NextView]_vars

\* ================================================================ claims
\* The now-playing state: audio source and title / artist.
NowPlayingState == <<audioSrc, nowPlaying>>

\* The now-playing state that results from applying the burst's last request
\* alone to the state the burst started from: the source if the resolver
\* answered with a URL, the title too if playback then started.
OnlyLastApplied ==
    << IF burst.outcome \in {"started", "played"} THEN UrlOf(burst.song) ELSE burst.base[1],
       IF burst.outcome = "played" THEN burst.song ELSE burst.base[2] >>

C2_StaleCompletionChangesNothing ==
    [][\A r \in requests, o \in ResolveOutcomes :
          (r.token # latestPlayRequestToken /\ Resolve(r, o))
              => /\ UNCHANGED <<audioSrc, nowPlaying, isSongLoading, playedHistory,
                               prefetchedUrl, prefetchedId, upNextSongs>>
                 /\ errorToasts' = 0]_vars

\* C3 (as claimed): no play request calls the stream resolver for a track
\* whose URL the prefetch entry holds.
C3_PrefetchHitSkipsResolver ==
    [][\A r \in requests' \ requests :
          r.pc = "resolving" => GetPrefetchedUrl(r.song) = Null]_vars

\* C4: a stream resolution that fails (no URL, or the call rejects) while its
\* token is the latest puts up exactly one error toast, ends the request, and
\* leaves the audio source, the now-playing title, the history, the prefetch
\* entry and the recommendation buffer as they were.
C4_CurrentFailureSurfacedOnce ==
    [][\A r \in requests, o \in {"empty", "throw"} :
          (r.token = latestPlayRequestToken /\ Resolve(r, o))
              => /\ errorToasts' = 1
                 /\ r \notin requests'
                 /\ UNCHANGED <<audioSrc, nowPlaying, playedHistory, prefetchedUrl,
                               prefetchedId, upNextSongs>>]_vars

\* C4 witness: a track is playing, a prefetch entry and a recommendation
\* buffer exist, and the latest request's resolution has just failed with
\* its toast.
C4_Witness ==
    /\ burst.clean
    /\ burst.tok = latestPlayRequestToken
    /\ burst.outcome = "failed"
    /\ errorToasts = 1
    /\ requests = {}
    /\ audioSrc # Null
    /\ nowPlaying # Null
    /\ playedHistory # <<>>

\* C5 (as claimed): a stream resolution that fails (no URL, or the call
\* rejects) after its token stopped being the latest puts up no error toast.
C5_NoToastForStaleFailure ==
    [][\A r \in requests, o \in {"empty", "throw"} :
          (r.token # latestPlayRequestToken /\ Resolve(r, o))
              => errorToasts' = 0]_vars

\* C6: every step leaves latestPlayRequestToken unchanged or increases it by
\* exactly 1.
C6_TokenOnlyIncrements ==
    [][\/ latestPlayRequestToken' = latestPlayRequestToken
       \/ latestPlayRequestToken' = latestPlayRequestToken + 1]_vars

\* C6 witness: the token has been incremented twice, the second time while a
\* request was in flight.
C6_Witness ==
    /\ latestPlayRequestToken = 2
    /\ \E r \in requests : r.token = 1

\* C7: every step that starts a stream resolution for playback increments the
\* token in that step and hands the new value to the resolution, so the play
\* requests in flight hold distinct tokens and at most one holds the latest.
C7_FreshTokenPerRequest ==
    /\ [](/\ \A r1, r2 \in requests : r1.token = r2.token => r1 = r2
          /\ Cardinality({r \in requests : r.token = latestPlayRequestToken}) <= 1)
    /\ [][\A r \in requests' \ requests :
             r.pc = "resolving"
                 => /\ latestPlayRequestToken' = latestPlayRequestToken + 1
                    /\ r.token = latestPlayRequestToken']_vars

\* C7 witness: two stream resolutions are in flight, one of them with the
\* latest token.
C7_Witness ==
    /\ Cardinality({r \in requests : r.pc = "resolving"}) >= 2
    /\ \E r \in requests : r.token = latestPlayRequestToken

\* C8: currentSongIndex is -1 or a valid index of songQueue.
C8_CursorValid ==
    \/ currentSongIndex = -1
    \/ 0 <= currentSongIndex /\ currentSongIndex < Len(songQueue)

\* C8 witness: a queue operation that starts a play request has run on a
\* played-once session and the cursor is on the last item of a full queue.
C8_Witness ==
    /\ latestPlayRequestToken = PlayedOnce.token + 1
    /\ Len(songQueue) = QueueLen
    /\ currentSongIndex = Len(songQueue) - 1

\* The cursor is on the item that followed the removed one: removeItem(i) of
\* the current item, which has a successor.
OnFollower(i) ==
    /\ i + 1 < Len(songQueue)
    /\ songQueue' = SpliceOut(songQueue, i)
    /\ currentSongIndex' = i

\* The cursor is on a track just pulled from the recommendation buffer.
OnPulled(i) ==
    /\ upNextSongs # <<>>
    /\ songQueue' = Append(SpliceOut(songQueue, i), Head(upNextSongs))
    /\ upNextSongs' = Tail(upNextSongs)
    /\ currentSongIndex' = Len(songQueue') - 1

\* C9 (as claimed): removeItem of the current item of a queue of more than
\* one item leaves the cursor on a valid index, on the item that followed the
\* removed one or on a track just pulled from the recommendation buffer.
C9_RemoveCurrentSelectsNextOrPulled ==
    [][\A i \in 0..(Len(songQueue) - 1) :
          (Len(songQueue) > 1 /\ i = currentSongIndex /\ RemoveItem(i))
              => /\ currentSongIndex' \in 0..(Len(songQueue') - 1)
                 /\ OnFollower(i) \/ OnPulled(i)]_vars

\* C9 (amended): removeItem of the current item of a queue of more than one
\* item leaves the cursor on a valid index: on the item that followed the
\* removed one if there is one, else on a track just pulled from the
\* recommendation buffer if the buffer is not empty, and in both cases a play
\* request with a fresh token is started for that track; else, the removed
\* item being the last and the buffer empty, on the item that preceded the
\* removed one, playback paused and no play request started.  With queue
\* [A,B,C], cursor on B and an empty buffer, the cursor ends on C.
C9_RemoveCurrentAmended ==
    [][\A i \in 0..(Len(songQueue) - 1) :
          (Len(songQueue) > 1 /\ i = currentSongIndex /\ RemoveItem(i))
              => /\ currentSongIndex' \in 0..(Len(songQueue') - 1)
                 /\ IF i + 1 < Len(songQueue) \/ upNextSongs # <<>>
                    THEN /\ IF i + 1 < Len(songQueue) THEN OnFollower(i) ELSE OnPulled(i)
                         /\ requests' = requests \cup
                                {[token |-> latestPlayRequestToken + 1,
                                  song |-> songQueue'[currentSongIndex' + 1],
                                  pc |-> "resolving"]}
                    ELSE /\ songQueue' = SpliceOut(songQueue, i)
                         /\ currentSongIndex' = i - 1
                         /\ audioPaused'
                         /\ requests' = requests
                 /\ (songQueue = <<1, 2, 3>> /\ i = 1 /\ upNextSongs = <<>>)
                        => songQueue'[currentSongIndex' + 1] = 3]_vars

\* C9 witness: queue [A,B,C], cursor on B, empty buffer, and removeItem(1)
\* puts the cursor on C; and, in another state, the current item is the last
\* one, the buffer is empty, and removeItem puts the cursor on the
\* predecessor.
C9_Witness ==
    \/ /\ songQueue = <<1, 2, 3>>
       /\ currentSongIndex = 1
       /\ upNextSongs = <<>>
       /\ ENABLED (/\ RemoveItem(1)
                   /\ Within(PlayedOnce.token + QueueSteps, QueueLen)
                   /\ songQueue' = <<1, 3>>
                   /\ currentSongIndex' = 1)
    \/ /\ songQueue = <<1, 2>>
       /\ currentSongIndex = 1
       /\ upNextSongs = <<>>
       /\ ENABLED (/\ RemoveItem(1)
                   /\ Within(PlayedOnce.token + QueueSteps, QueueLen)
                   /\ songQueue' = <<1>>
                   /\ currentSongIndex' = 0)

\* Everything but the toast output of the handler that just ran.
programVars ==
    <<latestPlayRequestToken, isSongLoading, songQueue, currentSongIndex,
      upNextSongs, upNextArtists, prefetchedUrl, prefetchedId, playedHistory,
      audioSrc, audioPaused, currentTime, nowPlaying, requests, prefetching,
      fetching>>

\* C10: removeItem(index) of an item other than the current one removes that
\* item, moves the cursor down by one if index < cursor and leaves it
\* otherwise, keeps the cursor on the same queue element, and starts no play
\* request (token and requests unchanged); an out-of-range index changes
\* nothing.
C10_RemoveOtherKeepsCurrent ==
    [][\A i \in -1..Len(songQueue) :
          RemoveItem(i)
              => IF i < 0 \/ i >= Len(songQueue)
                 THEN UNCHANGED programVars
                 ELSE i # currentSongIndex
                      => /\ songQueue' = SpliceOut(songQueue, i)
                         /\ currentSongIndex' = IF i < currentSongIndex
                                                THEN currentSongIndex - 1
                                                ELSE currentSongIndex
                         /\ ItemAt(songQueue', currentSongIndex')
                                = ItemAt(songQueue, currentSongIndex)
                         /\ UNCHANGED <<latestPlayRequestToken, requests>>]_vars

\* C10 witness: the cursor is on the last of three distinct items and
\* removeItem(0) moves it down by one, still on the same track; and in
\* another state the cursor is on the first and removeItem(2) leaves it.
C10_Witness ==
    /\ songQueue = <<1, 2, 3>>
    /\ \/ /\ currentSongIndex = 2
          /\ ENABLED (/\ RemoveItem(0)
                      /\ songQueue' = <<2, 3>>
                      /\ currentSongIndex' = 1)
       \/ /\ currentSongIndex = 0
          /\ ENABLED (/\ RemoveItem(2)
                      /\ songQueue' = <<1, 2>>
                      /\ currentSongIndex' = 0)

\* How often track x is in queue q.
Count(q, x) == Cardinality({i \in 1..Len(q) : q[i] = x})

\* C11: reorderItem(oldIndex, newIndex) with valid, different indices moves
\* exactly one element (the element of oldIndex is at newIndex, the others
\* keep their order), keeps the multiset of queued tracks, leaves the id of
\* the track at the cursor as it was, and starts no play request; also for
\* queues with duplicate ids.
C11_ReorderKeepsCurrent ==
    [][\A i, j \in 0..(Len(songQueue) - 1) :
          (i # j /\ ReorderItem(i, j))
              => /\ Len(songQueue') = Len(songQueue)
                 /\ songQueue'[j + 1] = songQueue[i + 1]
                 /\ SpliceOut(songQueue', j) = SpliceOut(songQueue, i)
                 /\ \A x \in Songs : Count(songQueue', x) = Count(songQueue, x)
                 /\ ItemAt(songQueue', currentSongIndex')
                        = ItemAt(songQueue, currentSongIndex)
                 /\ UNCHANGED <<latestPlayRequestToken, requests>>]_vars

\* C11 witness: a queue with a duplicate id, the cursor on its second
\* occurrence, and reorderItem(0, 2) moves the first element to the end; the
\* cursor index changes and still selects the same id.
C11_Witness ==
    /\ songQueue = <<2, 1, 1>>
    /\ currentSongIndex = 2
    /\ ENABLED (/\ ReorderItem(0, 2)
                /\ songQueue' = <<1, 1, 2>>
                /\ currentSongIndex' = 0)

\* C12: setSongForPlayback(track, sourceCollection) with a source collection
\* replaces the queue by the collection's track list and puts the cursor on
\* the index of track in it; when track is not in the collection it is
\* appended / inserted and selected, so the track at the cursor is always
\* the requested track.
C12_CollectionSelectsTrack ==
    [][\A s \in Songs, c \in Collections :
          SetSongForPlaybackCall(s, c)
              => /\ s \in Ids(c) => (songQueue' = c /\ currentSongIndex' = FindIndex(c, s))
                 /\ ItemAt(songQueue', currentSongIndex') = s]_vars

\* C13: setSongForPlayback(track) without a source collection: a track whose
\* id is in the queue leaves the queue as it is and moves the cursor to that
\* position (the first with that id); otherwise the track is inserted at
\* cursor + 1, the cursor advances onto it, and the other tracks keep their
\* relative order.
C13_BareTrackSlotsIn ==
    [][\A s \in Songs :
          SetSongForPlaybackCall(s, NoCollection)
              => IF s \in Ids(songQueue)
                 THEN /\ songQueue' = songQueue
                      /\ songQueue[currentSongIndex' + 1] = s
                      /\ \A k \in 1..currentSongIndex' : songQueue[k] # s
                 ELSE /\ currentSongIndex' = currentSongIndex + 1
                      /\ Len(songQueue') = Len(songQueue) + 1
                      /\ songQueue'[currentSongIndex' + 1] = s
                      /\ SpliceOut(songQueue', currentSongIndex') = songQueue]_vars

\* C13 witness: track 3 is not in queue [1,2] with the cursor on 1 and is
\* inserted between them; and, in another state, track 2 is in queue
\* [1,2,2] and the cursor moves from 0 to its first position.
C13_Witness ==
    \/ /\ songQueue = <<1, 2>>
       /\ currentSongIndex = 0
       /\ ENABLED (/\ SetSongForPlaybackCall(3, NoCollection)
                   /\ songQueue' = <<1, 3, 2>>
                   /\ currentSongIndex' = 1)
    \/ /\ songQueue = <<1, 2, 2>>
       /\ currentSongIndex = 0
       /\ ENABLED (/\ SetSongForPlaybackCall(2, NoCollection)
                   /\ songQueue' = <<1, 2, 2>>
                   /\ currentSongIndex' = 1)

\* The play request that a handler starts for track s.
Started(s) ==
    requests' = requests \cup {[token |-> latestPlayRequestToken + 1, song |-> s,
                                pc |-> "resolving"]}

\* C14: playNextOrUpNext: if cursor < length - 1 the cursor moves forward by
\* one and that track is played; otherwise, if the recommendation buffer is
\* not empty, its first element is removed from it, appended to the queue and
\* becomes the cursor track, and is played (empty queue, buffer [X,Y]: queue
\* [X], cursor 0, buffer [Y]); otherwise queue, cursor and buffer are
\* unchanged, no play request is started and playback is paused.
C14_AdvanceSemantics ==
    [][PlayNextOrUpNext
          => /\ IF currentSongIndex < Len(songQueue) - 1
                THEN /\ currentSongIndex' = currentSongIndex + 1
                     /\ UNCHANGED <<songQueue, upNextSongs>>
                     /\ Started(songQueue[currentSongIndex + 2])
                ELSE IF upNextSongs # <<>>
                THEN /\ upNextSongs' = Tail(upNextSongs)
                     /\ songQueue' = Append(songQueue, Head(upNextSongs))
                     /\ currentSongIndex' = Len(songQueue') - 1
                     /\ Started(Head(upNextSongs))
                ELSE /\ UNCHANGED <<songQueue, currentSongIndex, upNextSongs, requests>>
                     /\ audioPaused'
             /\ (songQueue = <<>> /\ upNextSongs = <<2, 3>>)
                    => (songQueue' = <<2>> /\ currentSongIndex' = 0 /\ upNextSongs' = <<3>>)]_vars

\* C14 witness: two advances have drained buffer [2,3] into an empty queue
\* (queue [2,3], cursor on 3, buffer empty, two play requests started).
C14_Witness ==
    /\ songQueue = <<2, 3>>
    /\ currentSongIndex = 1
    /\ upNextSongs = <<>>
    /\ Cardinality(requests) = 2
    /\ latestPlayRequestToken = PlayedOnce.token + 2

\* C15: addSongToQueue(track) puts track at the end of the queue and leaves
\* the earlier elements in place; it starts a play request for the track
\* exactly when the queue was empty before the call, and otherwise leaves
\* the cursor and latestPlayRequestToken unchanged.
C15_AppendPlaysFirstEntry ==
    [][\A s \in Songs :
          AddSongToQueue(s)
              => /\ songQueue' = Append(songQueue, s)
                 /\ IF songQueue = <<>>
                    THEN /\ Started(s)
                         /\ latestPlayRequestToken' = latestPlayRequestToken + 1
                         /\ currentSongIndex' = 0
                    ELSE UNCHANGED <<currentSongIndex, latestPlayRequestToken,
                                     requests>>]_vars

\* C15 witness: the queue is empty and addSongToQueue(3) starts a play
\* request for track 3; and, in another state, the queue is [1,2] with the
\* cursor on 1 and addSongToQueue(3) only appends.
C15_Witness ==
    \/ /\ songQueue = <<>>
       /\ ENABLED (/\ AddSongToQueue(3)
                   /\ songQueue' = <<3>>
                   /\ currentSongIndex' = 0
                   /\ Started(3))
    \/ /\ songQueue = <<1, 2>>
       /\ currentSongIndex = 0
       /\ ENABLED (/\ AddSongToQueue(3)
                   /\ songQueue' = <<1, 2, 3>>
                   /\ requests' = requests)

\* C16: addSongToPlayNext(track) inserts track at position cursor + 1 and
\* leaves unchanged the cursor, the track at the cursor, the token, the audio
\* source, the history and the recommendation buffer; it starts no play
\* request.
C16_InsertNextFrame ==
    [][\A s \in Songs :
          AddSongToPlayNext(s)
              => /\ Len(songQueue') = Len(songQueue) + 1
                 /\ songQueue'[currentSongIndex + 2] = s
                 /\ SpliceOut(songQueue', currentSongIndex + 1) = songQueue
                 /\ ItemAt(songQueue', currentSongIndex')
                        = ItemAt(songQueue, currentSongIndex)
                 /\ UNCHANGED <<currentSongIndex, latestPlayRequestToken, audioSrc,
                                playedHistory, upNextSongs, requests>>]_vars

\* C16 witness: queue [1,2] with the cursor on 1, and addSongToPlayNext(3)
\* puts 3 between them with the cursor still on 1.
C16_Witness ==
    /\ songQueue = <<1, 2>>
    /\ currentSongIndex = 0
    /\ ENABLED (/\ AddSongToPlayNext(3)
                /\ songQueue' = <<1, 3, 2>>
                /\ currentSongIndex' = 0)

\* previous() changes nothing a user or a later handler can see.
PreviousChangesNothing ==
    UNCHANGED <<songQueue, currentSongIndex, latestPlayRequestToken, currentTime,
                audioSrc, audioPaused, requests>>

\* previous() on a queue that is not empty, the position at most 3 seconds.
PreviousMoves ==
    IF currentSongIndex > 0
    THEN /\ currentSongIndex' = currentSongIndex - 1
         /\ latestPlayRequestToken' = latestPlayRequestToken + 1
         /\ Started(songQueue[currentSongIndex])
         /\ UNCHANGED songQueue
    ELSE PreviousChangesNothing

\* previous() with the position past 3 seconds: back to zero, nothing moved.
PreviousRestarts ==
    /\ currentTime' = 0
    /\ UNCHANGED <<songQueue, currentSongIndex, latestPlayRequestToken, requests>>

\* C17 is stated of every state: previous() is deterministic and can always
\* be called, so "it can run with the effect described" says that it has that
\* effect, also where it changes nothing.
\* C17 (as claimed): previous: when the playback position is more than 3
\* seconds the position is reset to zero and cursor, queue and token are
\* unchanged; otherwise, if cursor > 0 the cursor decreases by one and a play
\* request with a fresh token is started for that track; if the cursor is 0
\* or the queue is empty nothing changes.
C17_PreviousSemantics ==
    ENABLED (/\ Previous
             /\ IF currentTime > 3 THEN PreviousRestarts
                ELSE IF Len(songQueue) = 0 THEN PreviousChangesNothing
                ELSE PreviousMoves)

\* C17 (amended): previous: when the queue is empty nothing changes, whatever
\* the playback position; otherwise, when the playback position is more than
\* 3 seconds the position is reset to zero and cursor, queue and token are
\* unchanged; otherwise, if cursor > 0 the cursor decreases by one and a play
\* request with a fresh token is started for that track, and if the cursor is
\* 0 (or -1) nothing changes.
C17_PreviousAmended ==
    ENABLED (/\ Previous
             /\ IF Len(songQueue) = 0 THEN PreviousChangesNothing
                ELSE IF currentTime > 3 THEN PreviousRestarts
                ELSE PreviousMoves)

\* C17 witness: the queue is empty while the removed track is still loaded
\* at a position past 3 seconds, where previous() changes nothing; or the
\* queue is [1,2], the cursor on 2, the position past 3 seconds, where
\* previous() resets the position; or the same at position zero, where
\* previous() starts a play request for 1.
C17_Witness ==
    \/ /\ songQueue = <<>>
       /\ currentTime > 3
       /\ audioSrc # Null
       /\ ENABLED (Previous /\ currentTime' = currentTime)
    \/ /\ songQueue = <<1, 2>>
       /\ currentSongIndex = 1
       /\ currentTime > 3
       /\ ENABLED (Previous /\ currentTime' = 0 /\ currentSongIndex' = 1)
    \/ /\ songQueue = <<1, 2>>
       /\ currentSongIndex = 1
       /\ currentTime = 0
       /\ ENABLED (Previous /\ currentSongIndex' = 0 /\ Started(1))

\* id is at the front of history h2, the other ids of h follow in their order.
RecordedAtFront(h, h2, id) ==
    /\ h2 # <<>>
    /\ Head(h2) = id
    /\ Tail(h2) = FilterOut(h, {id})

\* A request that is discarded as stale or whose resolution fails records
\* nothing into the history.
DiscardedRecordsNothing ==
    \A r \in requests, o \in ResolveOutcomes : Resolve(r, o) => UNCHANGED playedHistory

\* C18 (as claimed): every play request whose result is applied (token
\* current when the resolution completes, URL not empty) records its track id
\* at the front of the history when it ends, and a request that is discarded
\* as stale or fails records nothing.
C18_AppliedRequestRecorded ==
    [][/\ \A r \in requests, o \in StartOutcomes :
              AudioStart(r, o) => RecordedAtFront(playedHistory, playedHistory', r.song)
       /\ DiscardedRecordsNothing]_vars

\* C18 (amended): every play request whose result is applied (token current
\* when the resolution completes, URL not empty) and whose playback then
\* starts (audioPlayer.play() resolves) records its track id at the front of
\* the history; a request that is discarded as stale, whose resolution
\* fails, or whose play() is rejected records nothing; nothing else changes
\* the history.
C18_StartedRequestRecorded ==
    [][/\ \A r \in requests :
              /\ AudioStart(r, "ok")
                    => RecordedAtFront(playedHistory, playedHistory', r.song)
              /\ AudioStart(r, "reject") => UNCHANGED playedHistory
       /\ DiscardedRecordsNothing
       /\ playedHistory' # playedHistory => \E r \in requests : AudioStart(r, "ok")]_vars

\* C18 witness: track 1 was recorded by a request whose playback started;
\* the result of a request for track 2 was then applied (it is the audio
\* source) and its play() was rejected (the error toast of the handler that
\* just ran): track 2 is not in the history.
C18_Witness ==
    /\ playedHistory = <<1>>
    /\ audioSrc = UrlOf(2)
    /\ errorToasts = 1
    /\ requests = {}

\* C19: playedHistory has at most 50 entries and no id twice; addToHistory(id)
\* leaves id at the front and the other ids in their previous order;
\* recording an id already present does not change the length, and recording
\* a new id into a full history of 50 drops only the oldest (last) entry.
C19_HistoryBoundedDistinct ==
    /\ [](/\ Len(playedHistory) <= 50
          /\ \A i, j \in 1..Len(playedHistory) :
                 playedHistory[i] = playedHistory[j] => i = j)
    /\ [][\A id \in ProbeIds \ {Null} :
              AddToHistoryCall(id)
                  => /\ Head(playedHistory') = id
                     /\ id \in Ids(playedHistory)
                            => /\ Len(playedHistory') = Len(playedHistory)
                               /\ Tail(playedHistory') = FilterOut(playedHistory, {id})
                     /\ (id \notin Ids(playedHistory) /\ Len(playedHistory) < 50)
                            => Tail(playedHistory') = playedHistory
                     /\ (id \notin Ids(playedHistory) /\ Len(playedHistory) = 50)
                            => /\ Len(playedHistory') = 50
                               /\ Tail(playedHistory') = SubSeq(playedHistory, 1, 49)]_vars

\* C19 witness: a history of 50 ids whose first is an id that the 50 tracks
\* played in a row did not include: it was recorded into the full history
\* and the oldest id, 1, was dropped.
C19_Witness ==
    /\ Len(playedHistory) = 50
    /\ Head(playedHistory) = 51
    /\ 1 \notin Ids(playedHistory)

\* C20: immediately after fetchUpNext replaces upNextSongs (its await
\* settles, with a list or with a failure), no track of upNextSongs has an id
\* that is in playedHistory or in the queue as they are at that moment, and
\* every track of it has an artists field that is a sequence.
C20_UpNextFiltered ==
    [][(\E f \in fetching : fetching' = fetching \ {f})
          => /\ \A i \in 1..Len(upNextSongs') :
                    /\ upNextSongs'[i] \notin Ids(playedHistory')
                    /\ upNextSongs'[i] \notin Ids(songQueue')
             /\ Len(upNextArtists') = Len(upNextSongs')
             /\ \A i \in 1..Len(upNextArtists') : upNextArtists'[i].isArray]_vars

\* C20 witness: a recommendation fetch is pending, track 1 is in the history
\* and track 2 neither in the history nor in the queue: an answer [2] with a
\* bare artist name puts 2 into the buffer with the name in a sequence, and
\* an answer [1] leaves the buffer empty.
C20_Witness ==
    /\ 1 \in Ids(playedHistory)
    /\ \E f \in fetching :
          /\ ENABLED (/\ FetchUpNextDone(f, <<2>>, <<ArtistsScalar>>)
                      /\ upNextSongs' = <<2>>
                      /\ upNextArtists' = <<ArtistsList>>)
          /\ ENABLED (/\ FetchUpNextDone(f, <<1>>, <<ArtistsList>>)
                      /\ upNextSongs' = <<>>)

\* What a failed recommendation fetch must leave alone.
PlaybackUntouched ==
    UNCHANGED <<audioSrc, currentSongIndex, songQueue, latestPlayRequestToken>>

\* C21: when the recommendation request fails, or fetchUpNext finds no
\* current track, the recommendation buffer becomes empty, no error is shown
\* and audio source, cursor, queue and token are unchanged.
C21_UpNextFailsOpen ==
    [][/\ \A f \in fetching :
              FetchUpNextFail(f)
                  => upNextSongs' = <<>> /\ errorToasts' = 0 /\ PlaybackUntouched
       /\ \A r \in requests :
              (AudioStart(r, "ok") /\ GetCurrentItem = Null)
                  => upNextSongs' = <<>> /\ errorToasts' = 0 /\ PlaybackUntouched]_vars

\* C21 witness: the buffer holds a track, a recommendation fetch is pending,
\* and its failure empties the buffer.
C21_Witness ==
    /\ upNextSongs # <<>>
    /\ \E f \in fetching : ENABLED (FetchUpNextFail(f) /\ upNextSongs' = <<>>)

\* C22: playFromUpNext(i) for a valid buffer index removes exactly that
\* track from the recommendation buffer, appends it to the queue, puts the
\* cursor on the last queue index and starts its playback with a freshly
\* incremented token; for an index with no track it changes nothing.
C22_PlayFromUpNext ==
    [][\A i \in -1..BufferLen :
          PlayFromUpNext(i)
              => IF 0 <= i /\ i < Len(upNextSongs)
                 THEN /\ upNextSongs' = SubSeq(upNextSongs, 1, i)
                                            \o SubSeq(upNextSongs, i + 2, Len(upNextSongs))
                      /\ songQueue' = Append(songQueue, upNextSongs[i + 1])
                      /\ currentSongIndex' = Len(songQueue)
                      /\ latestPlayRequestToken' = latestPlayRequestToken + 1
                      /\ Started(upNextSongs[i + 1])
                 ELSE UNCHANGED programVars]_vars

\* C22 witness: buffer [2,3], queue [1] with the cursor on it, and
\* playFromUpNext(1) takes 3 out of the buffer and plays it from the end of
\* the queue.
C22_Witness ==
    /\ upNextSongs = <<2, 3>>
    /\ songQueue = <<1>>
    /\ currentSongIndex = 0
    /\ ENABLED (/\ PlayFromUpNext(1)
                /\ upNextSongs' = <<2>>
                /\ songQueue' = <<1, 3>>
                /\ currentSongIndex' = 1
                /\ Started(3))

\* The play requests issued by the step: none.
NoStreamResolved == requests' = requests /\ burst' = burst

C24_ClosedFetchIgnored ==
    [][\A f \in videoFetches : \A o \in VideoOutcomes :
          (f.closed /\ VideoStreamDone(f, o))
              => errorToasts' = 0 /\ videoSrc' \in {videoSrc, Null}]_vars

\* C25: getPrefetchedUrl(id) returns the stored URL when id is the stored
\* prefetchedId and none for every other id, whether or not an entry is
\* stored; once clearPrefetchedUrl has emptied the entry (no stored id,
\* until the next store) it returns none for every id.
C25_PrefetchLookup ==
    \A id \in Songs \cup {Null} :
        /\ id # prefetchedId => GetPrefetchedUrl(id) = Null
        /\ id = prefetchedId => GetPrefetchedUrl(id) = prefetchedUrl
        /\ prefetchedId = Null => GetPrefetchedUrl(id) = Null

\* C25 witness: the entry of track 2 is stored; it is returned for 2 and
\* not for 1.
C25_Witness ==
    /\ prefetchedId = 2
    /\ prefetchedUrl = UrlOf(2)
    /\ GetPrefetchedUrl(2) = UrlOf(2)
    /\ GetPrefetchedUrl(1) = Null

\* The prefetch entry gives no URL for any id.
PrefetchEntryEmpty == prefetchedId = Null \/ prefetchedUrl = Null

\* C26: after a successful play and once every prefetch resolution has
\* completed, in whatever order, the prefetch entry is either empty or keyed
\* to the track that was at cursor+1 when the most recent successful play
\* was applied, with a non-empty URL (so that the prefetch of an earlier
\* play has not replaced the entry of a later one).
C26_PrefetchEntryOfLatestPlay ==
    (applied.song # Null /\ prefetching = {})
        => \/ PrefetchEntryEmpty
           \/ prefetchedId = applied.next /\ prefetchedUrl # Null

\* C27: whenever no play request is in flight and the audio element has a
\* source, that source is the stream resolved for the track at the queue
\* cursor (getCurrentItem).
C27_SourceIsCursorTrack ==
    (requests = {} /\ audioSrc # Null)
        => GetCurrentItem # Null /\ audioSrc = UrlOf(GetCurrentItem)

\* C28: whenever playSong takes the resume-in-place path, the source loaded
\* in the audio element is the stream of the requested track.
C28_ResumedSourceIsRequested ==
    [][\A song \in Songs : \A source \in Collections \cup {NoCollection} :
          (PlaySong(song, source) /\ IsResumeInPlace(songQueue, currentSongIndex, song))
              => audioSrc = UrlOf(song)]_vars

\* C29: once every recommendation fetch has completed, in whatever order,
\* the recommendation buffer holds the result computed for the track most
\* recently applied as now-playing (it was last written by the fetch of that
\* play), and each fetch is issued for the track whose play was just
\* applied.
C29_BufferOfLatestPlay ==
    [][/\ (applied'.song # Null /\ fetching' = {})
           => upNextFor' = [tok |-> applied'.tok, song |-> applied'.song]
       /\ \A r \in requests :
              AudioStart(r, "ok") => \A f \in fetching' \ fetching : f.song = r.song]_vars

====
